---- MODULE Spec2Model ----
(***************************************************************************)
(* InfernalForge: the public tier (app.py) with its rate limiter, and the  *)
(* internal tier (ai_service.py) with its job store, artifact mapping and  *)
(* background job threads.                                                 *)
(***************************************************************************)
EXTENDS Integers, Sequences, FiniteSets, TLC

(***************************************************************************)
(* Program constants.                                                      *)
(***************************************************************************)
RATE_LIMIT_WINDOW == 60
MAX_REQUESTS_PER_USER == 3
MAX_CONCURRENT_JOBS == 2
GLOBAL_RATE_LIMIT == 10
CLEANUP_INTERVAL == 10
MAX_PROMPT_LENGTH == 200
MAX_DIMENSION == 1024
MIN_DIMENSION == 64
MAX_STEPS == 100
MIN_STEPS == 1

(***************************************************************************)
(* Bounds of the model.                                                    *)
(***************************************************************************)
\* request threads of the public tier
NumThreads == 2
\* requests a run of the whole system starts
MaxRequests == 3
\* requests a run of the rate limiter (from a loaded server) starts
MaxRateRequests == 2
\* jobs the job store holds in a run
MaxJobs == 3
\* jobs a run of the internal tier alone creates
MaxDirectJobs == 2
\* requests a run of the authentication checks starts
MaxAuthRequests == 2

None == "None"
Threads == 1 .. NumThreads
JobIds == 1 .. MaxJobs

\* session user ids (uuid4 strings in the program)
GateUsers == {"u1", "u2"}
AllUsers == {"u1", "u2", "u3", "u4"}
UserOrder == <<"u1", "u2", "u3", "u4">>
\* a user_id that is not UUID-shaped, for direct calls to the internal tier
BadUserId == "not-a-uuid"

\* the shared secret, a wrong token, and no token at all
AI_SERVICE_AUTH_TOKEN == "secret"
Tokens == {AI_SERVICE_AUTH_TOKEN, "wrong", None}

\* the clock readings a run passes through: the start, and the two sides of
\* the end of the first rate-limit window
Instants == {0, RATE_LIMIT_WINDOW - 1, RATE_LIMIT_WINDOW}

Terminal == {"completed", "failed"}

(***************************************************************************)
(* Request bodies of POST /generate.  kind is what request.json makes of   *)
(* the body: "json" (a non-empty object), "empty" (None or {}), or         *)
(* "unparsable" (request.json raises).  safe: the prompt matches           *)
(* ALLOWED_CHARS.  seed: "absent", or the seed given, by its place in the  *)
(* range 0 .. 2^32-1: "lo" (0), "hi" (2^32-1), "neg" (-1), "over" (2^32),  *)
(* "text" (no integer).  prompt_len is the length of the prompt as sent and *)
(* pad the number of whitespace characters at its ends; height is the      *)
(* whole part of the number sent and height_frac its tenths.  text is      *)
(* prompt[:10], the characters the file name is made of.                   *)
(***************************************************************************)
PromptText(len) ==
    [i \in 1 .. (IF len < 10 THEN len ELSE 10) |-> IF i = 2 THEN " " ELSE "a"]

MkBody(kind, len, safe, h, w, steps) ==
    [kind |-> kind, prompt_len |-> len, safe |-> safe, height |-> h,
     width |-> w, steps |-> steps, seed |-> "absent", pad |-> 0,
     height_frac |-> 0, text |-> PromptText(len)]

GoodBody == MkBody("json", 5, TRUE, 512, 512, 50)
LongBody == MkBody("json", 500, TRUE, 512, 512, 50)
UnsafeBody == MkBody("json", 5, FALSE, 512, 512, 50)
EmptyBody == MkBody("empty", 0, TRUE, 512, 512, 50)
UnparsableBody == MkBody("unparsable", 0, TRUE, 512, 512, 50)
Bodies == {GoodBody, LongBody, UnsafeBody, EmptyBody, UnparsableBody}

\* a short prompt between 300 blanks, and a height of 1024.9
PaddedBody ==
    [GoodBody EXCEPT !.prompt_len = 305, !.pad = 300,
                     !.text = [i \in 1 .. 10 |-> " "]]

\* prompts that differ from GoodBody's "a aaa": "a_aaa", "a(aaa" and "b aaa"
UnderscoreBody == [GoodBody EXCEPT !.text = <<"a", "_", "a", "a", "a">>]
BracketBody ==
    [GoodBody EXCEPT !.prompt_len = 6, !.text = <<"a", " ", "(", "a", "a", "a">>]
OtherBody == [GoodBody EXCEPT !.text = <<"b", " ", "a", "a", "a">>]
FractionBody == [GoodBody EXCEPT !.height = MAX_DIMENSION, !.height_frac = 9]

VARIABLES
    now,                  \* time.time()
    user_request_times,   \* app.py: dict user -> list of timestamps
    user_concurrent_jobs, \* app.py: defaultdict(int), 0 for an absent key
    last_cleanup,         \* app.py
    req,                  \* the public tier's request threads
    jobs,                 \* ai_service.py: dict job_id -> job
    file_mapping,         \* ai_service.py: dict job_id -> relative path
    pipeline,             \* ai_service.py: None or the pipeline instance
    jt,                   \* the background thread of each job
    files,                \* the image files written under the output directory
    iresp,                \* the last direct call of a function or endpoint, and its answer
    admitted,             \* history: per user, every timestamp check_rate_limit recorded
    seen,                 \* history: per job, the status the last status read returned
    nreq                  \* history: requests started on the public tier

vars == <<now, user_request_times, user_concurrent_jobs, last_cleanup, req,
          jobs, file_mapping, pipeline, jt, files, iresp, admitted, seen, nreq>>

publicVars == <<user_request_times, user_concurrent_jobs, last_cleanup, admitted>>
internalVars == <<jobs, file_mapping, pipeline, jt, seen>>

(***************************************************************************)
(* Dictionaries.                                                           *)
(***************************************************************************)
EmptyDict == [k \in {} |-> <<>>]

\* d[k] of a defaultdict(list): the list, [] for an absent key
Get(d, k) == IF k \in DOMAIN d THEN d[k] ELSE <<>>

\* d[k] = v
Put(d, k, v) == [x \in DOMAIN d \cup {k} |-> IF x = k THEN v ELSE d[x]]

RECURSIVE SumLens(_, _)
SumLens(d, keys) ==
    IF keys = {} THEN 0
    ELSE LET k == CHOOSE x \in keys : TRUE
         IN  Len(d[k]) + SumLens(d, keys \ {k})

Max(a, b) == IF a >= b THEN a ELSE b

(***************************************************************************)
(* Authentication and validation.                                          *)
(***************************************************************************)
\* require_auth_token without the comparison: any token passes
AuthOkPresent(token) == token # None

\* require_auth_token (both tiers): the header or query token is present
\* and equals the shared secret
AuthOk(token) == token # None /\ token = AI_SERVICE_AUTH_TOKEN

\* len(prompt.strip())
StripLen(data) == data.prompt_len - data.pad

\* int(x) of a number x >= 0 sent as whole + tenths / 10
IntOf(whole, tenths) == (10 * whole + tenths) \div 10

\* app.py validate_request_data: "" when valid, else the error message
validate_request_data(data) ==
    IF StripLen(data) = 0 THEN "Prompt is required"
    ELSE IF StripLen(data) > 200 THEN "Prompt too long"
    ELSE IF ~(64 <= IntOf(data.height, data.height_frac)
              /\ IntOf(data.height, data.height_frac) <= 1024
              /\ 64 <= data.width /\ data.width <= 1024)
         THEN "Invalid dimensions"
    ELSE IF ~(1 <= data.steps /\ data.steps <= 100)
         THEN "Invalid number of steps"
    ELSE ""

\* the regular expression of ai_service.py line 146, on the user ids of the model
UuidShaped(user_id) == user_id \in AllUsers

\* ai_service.py validate_input: "" when valid, else the error message
validate_input(data, user_id) ==
    IF StripLen(data) = 0 THEN "Prompt is required"
    ELSE IF StripLen(data) > MAX_PROMPT_LENGTH THEN "Prompt too long"
    ELSE IF ~data.safe THEN "Prompt contains invalid characters"
    ELSE IF ~(MIN_DIMENSION <= IntOf(data.height, data.height_frac)
              /\ IntOf(data.height, data.height_frac) <= MAX_DIMENSION
              /\ MIN_DIMENSION <= data.width /\ data.width <= MAX_DIMENSION)
         THEN "Dimensions out of range"
    ELSE IF ~(MIN_STEPS <= data.steps /\ data.steps <= MAX_STEPS)
         THEN "Steps out of range"
    ELSE IF user_id = None THEN "User ID is required"
    ELSE IF ~UuidShaped(user_id) THEN "Invalid user ID format"
    ELSE IF data.seed \in {"neg", "over"} THEN "Invalid seed value"
    ELSE IF data.seed = "text" THEN "Seed must be a valid integer"
    ELSE ""

(***************************************************************************)
(* The public tier's request threads.                                      *)
(***************************************************************************)
IdleReq ==
    [pc |-> "idle", ep |-> None, user |-> None, body |-> EmptyBody,
     token |-> None, target |-> 0, ct |-> 0, current_time |-> 0,
     resp |-> 0, reason |-> "", fwd |-> FALSE, locks |-> {}]

\* the response leaves the handler
Answer(r, code, reason) == [r EXCEPT !.pc = "done", !.resp = code, !.reason = reason]

\* cleanup_old_requests, the pass under request_lock: the dict with every
\* list cut to the timestamps newer than cutoff, users with no timestamp removed
PruneDict(d, cutoff) ==
    LET kept(u) == SelectSeq(d[u], LAMBDA x : x > cutoff)
        keys == {u \in DOMAIN d : kept(u) # <<>>}
    IN  [u \in keys |-> kept(u)]

\* the three tests with the per-user window test off by one (> for >=)
RateDecisionOffByOne(urt, ucj, user_id) ==
    IF Len(urt[user_id]) > MAX_REQUESTS_PER_USER THEN "user_rate"
    ELSE IF ucj[user_id] >= MAX_CONCURRENT_JOBS THEN "concurrent"
    ELSE IF SumLens(urt, DOMAIN urt) >= GLOBAL_RATE_LIMIT THEN "global"
    ELSE "ok"

\* the three tests with the global one first
RateDecisionGlobalFirst(urt, ucj, user_id) ==
    IF SumLens(urt, DOMAIN urt) >= GLOBAL_RATE_LIMIT THEN "global"
    ELSE IF Len(urt[user_id]) >= MAX_REQUESTS_PER_USER THEN "user_rate"
    ELSE IF ucj[user_id] >= MAX_CONCURRENT_JOBS THEN "concurrent"
    ELSE "ok"

\* check_rate_limit, the three tests under request_lock, on the dict after
\* user_request_times[user_id] has created the user's key: "ok" or the
\* limit that denies
RateDecision(urt, ucj, user_id) ==
    IF Len(urt[user_id]) >= MAX_REQUESTS_PER_USER THEN "user_rate"
    ELSE IF ucj[user_id] >= MAX_CONCURRENT_JOBS THEN "concurrent"
    ELSE IF SumLens(urt, DOMAIN urt) >= GLOBAL_RATE_LIMIT THEN "global"
    ELSE "ok"

\* the decrement without its floor
ReleasedUnfloored(n) == n - 1

\* rate_limit_complete: the counter after the release
Released(n) == Max(0, n - 1)

\* POST /generate arrives at the public tier, with or without a token (the
\* handler reads none); the session test of lines 206-210
StartGenerate(t, user, token, body, limit) ==
    /\ req[t].pc \in {"idle", "done"}
    /\ nreq < limit
    /\ nreq' = nreq + 1
    /\ LET r == [IdleReq EXCEPT !.ep = "generate", !.user = user, !.token = token,
                             !.body = body]
       IN  req' = [req EXCEPT ![t] =
                     IF user = None THEN Answer(r, 401, "No user session found")
                     ELSE [r EXCEPT !.pc = "cleanup"]]
    /\ UNCHANGED <<now, publicVars, internalVars, files, iresp>>

\* cleanup_old_requests, lines 100-104: the clock and last_cleanup are read
\* with request_lock free
CleanupCheck(t) ==
    /\ req[t].pc = "cleanup"
    /\ req' = [req EXCEPT ![t] =
                 IF now - last_cleanup < CLEANUP_INTERVAL
                 THEN [@ EXCEPT !.pc = "read_time", !.ct = now]
                 ELSE [@ EXCEPT !.pc = "prune", !.ct = now]]
    /\ UNCHANGED <<now, publicVars, internalVars, files, iresp, nreq>>

\* cleanup_old_requests, lines 106-117, under request_lock
Prune(t) ==
    /\ req[t].pc = "prune"
    /\ user_request_times' =
           PruneDict(user_request_times, req[t].ct - RATE_LIMIT_WINDOW)
    /\ last_cleanup' = req[t].ct
    /\ req' = [req EXCEPT ![t].pc = "read_time"]
    /\ UNCHANGED <<now, user_concurrent_jobs, admitted, internalVars, files,
                   iresp, nreq>>

\* check_rate_limit, lines 123-127: the request's timestamp is read with
\* request_lock free
ReadTime(t) ==
    /\ req[t].pc = "read_time"
    /\ req' = [req EXCEPT ![t].pc = "admit", ![t].current_time = now]
    /\ UNCHANGED <<now, publicVars, internalVars, files, iresp, nreq>>

\* an admission whose counter update is not atomic: the counter is written
\* as 1, the increment of a value read as 0 before another admission
AdmitLostUpdate(t) ==
    /\ req[t].pc = "admit"
    /\ LET u == req[t].user
           urt == Put(user_request_times, u, Get(user_request_times, u))
           d == RateDecision(urt, user_concurrent_jobs, u)
       IN  IF d = "ok"
           THEN /\ user_request_times' =
                       Put(urt, u, Append(urt[u], req[t].current_time))
                /\ user_concurrent_jobs' = [user_concurrent_jobs EXCEPT ![u] = 1]
                /\ admitted' =
                       [admitted EXCEPT ![u] = Append(@, req[t].current_time)]
                /\ req' = [req EXCEPT ![t].pc = "admitted"]
           ELSE /\ user_request_times' = urt
                /\ UNCHANGED <<user_concurrent_jobs, admitted>>
                /\ req' = [req EXCEPT ![t] = Answer(@, 429, d)]
    /\ UNCHANGED <<now, last_cleanup, internalVars, files, iresp, nreq>>

\* check_rate_limit, lines 129-148, under request_lock, and the 429 of
\* generate_image lines 214-218
Admit(t) ==
    /\ req[t].pc = "admit"
    /\ LET u == req[t].user
           urt == Put(user_request_times, u, Get(user_request_times, u))
           d == RateDecision(urt, user_concurrent_jobs, u)
       IN  IF d = "ok"
           THEN /\ user_request_times' =
                       Put(urt, u, Append(urt[u], req[t].current_time))
                /\ user_concurrent_jobs' =
                       [user_concurrent_jobs EXCEPT ![u] = @ + 1]
                /\ admitted' =
                       [admitted EXCEPT ![u] = Append(@, req[t].current_time)]
                /\ req' = [req EXCEPT ![t].pc = "admitted"]
           ELSE /\ user_request_times' = urt
                /\ UNCHANGED <<user_concurrent_jobs, admitted>>
                /\ req' = [req EXCEPT ![t] = Answer(@, 429, d)]
    /\ UNCHANGED <<now, last_cleanup, internalVars, files, iresp, nreq>>

(***************************************************************************)
(* The internal tier: job store, artifact mapping, endpoints.              *)
(***************************************************************************)
NoPath == [user |-> None, name |-> <<>>, sec |-> 0]
IdleJt ==
    [pc |-> "none", path |-> NoPath, seed |-> "absent", err |-> "", pipe |-> None,
     locks |-> {}]

\* random.randint(0, 2**32 - 1), for a request that gives no seed: some
\* seed of the range, whichever it is
Seeds == {"random"}

\* a job identifier that is not fresh: the number of jobs, not the next one
NewJobIdReused == Max(1, Cardinality(DOMAIN jobs))

\* uuid.uuid4(): an identifier no job has had
NewJobId == Cardinality(DOMAIN jobs) + 1

\* the job-store entry generate() writes
NewJob(user_id, data) ==
    [status |-> "processing", started_at |-> now, user |-> user_id, data |-> data,
     has_result |-> FALSE, image_path |-> 0, seed |-> "absent",
     has_error |-> FALSE, error |-> ""]

\* generate() of the internal tier: the status code of its answer
IGenerateCode(token, data, user_id) ==
    IF ~AuthOk(token) THEN 401
    ELSE IF data.kind = "unparsable" THEN 500
    ELSE IF data.kind = "empty" \/ user_id = None THEN 400
    ELSE IF validate_input(data, user_id) # "" THEN 400
    ELSE 200

\* a generate() that runs the job itself and answers when it has ended
IGenerateSync(token, data, user_id, code) ==
    /\ code = IGenerateCode(token, data, user_id)
    /\ IF code = 200
       THEN /\ NewJobId \in JobIds
            /\ jobs' = Put(jobs, NewJobId,
                           [NewJob(user_id, data) EXCEPT
                               !.status = "failed", !.has_error = TRUE,
                               !.error = "image generation failed"])
            /\ jt' = [jt EXCEPT ![NewJobId] =
                        [IdleJt EXCEPT !.pc = "done", !.err = "image generation failed"]]
       ELSE UNCHANGED <<jobs, jt>>

\* generate() of the internal tier, answered with code: on 200 the job is in
\* the store as 'processing' and its background thread is started
IGenerate(token, data, user_id, code) ==
    /\ code = IGenerateCode(token, data, user_id)
    /\ IF code = 200
       THEN /\ NewJobId \in JobIds
            /\ jobs' = Put(jobs, NewJobId, NewJob(user_id, data))
            /\ jt' = [jt EXCEPT ![NewJobId] = [IdleJt EXCEPT !.pc = "start"]]
       ELSE UNCHANGED <<jobs, jt>>

\* get_job_status() of the internal tier, answered with code
IStatus(token, job_id, code) ==
    /\ code = IF ~AuthOk(token) THEN 401
              ELSE IF job_id \notin DOMAIN jobs THEN 404 ELSE 200
    /\ seen' = IF code = 200 THEN [seen EXCEPT ![job_id] = jobs[job_id].status]
               ELSE seen

\* serve_image() of the internal tier: the status code of its answer
IOutputCode(token, file_id) ==
    IF ~AuthOk(token) THEN 401
    ELSE IF file_id \notin DOMAIN file_mapping THEN 404
    ELSE IF file_mapping[file_id] \notin files THEN 404
    ELSE 200

\* health_check() of the internal tier, answered with code; get_pipeline
\* constructs the pipeline when there is none, or raises
IHealth(token, code) ==
    IF ~AuthOk(token) THEN code = 401 /\ UNCHANGED pipeline
    ELSE IF pipeline # None THEN code = 200 /\ UNCHANGED pipeline
    ELSE \/ code = 200 /\ pipeline' = (IF pipeline = None THEN "pipe" ELSE "pipe2")
         \/ code = 500 /\ UNCHANGED pipeline

(***************************************************************************)
(* generate_image of the public tier after admission.                      *)
(***************************************************************************)
\* lines 221-257: the body is read and validated and the request forwarded
\* with the tier's own token; every return inside the inner try goes
\* through the finally of line 258 ("release")
Handle(t) ==
    /\ req[t].pc = "admitted"
    /\ LET r == req[t]
           msg == validate_request_data(r.body)
           pending(code, reason) ==
               [r EXCEPT !.pc = "release", !.resp = code, !.reason = reason]
           sent(code, reason) ==
               [r EXCEPT !.pc = "release", !.resp = code, !.reason = reason,
                         !.fwd = TRUE]
       IN  IF r.body.kind = "unparsable"
           THEN /\ req' = [req EXCEPT ![t] = Answer(r, 500, "bad request")]
                /\ UNCHANGED <<jobs, jt>>
           ELSE IF r.body.kind = "empty"
           THEN /\ req' = [req EXCEPT ![t] = Answer(r, 400, "No data provided")]
                /\ UNCHANGED <<jobs, jt>>
           ELSE IF msg # ""
           THEN /\ req' = [req EXCEPT ![t] = pending(400, msg)]
                /\ UNCHANGED <<jobs, jt>>
           ELSE \/ \E code \in {200, 400, 401, 500} :
                      /\ IGenerate(AI_SERVICE_AUTH_TOKEN, r.body, r.user, code)
                      /\ \/ req' = [req EXCEPT ![t] =
                                      IF code = 200 THEN sent(200, "")
                                      ELSE sent(500, "upstream error")]
                         \/ req' = [req EXCEPT ![t] = sent(504, "Request timed out")]
                \/ /\ UNCHANGED <<jobs, jt>>
                   /\ \/ req' = [req EXCEPT ![t] = sent(504, "Request timed out")]
                      \/ req' = [req EXCEPT ![t] = sent(500, "unreachable")]
    /\ UNCHANGED <<now, publicVars, file_mapping, files, pipeline, seen, iresp,
                   nreq>>

\* line 260 and rate_limit_complete, under request_lock; then the response
Release(t) ==
    /\ req[t].pc = "release"
    /\ user_concurrent_jobs' =
           [user_concurrent_jobs EXCEPT ![req[t].user] = Released(@)]
    /\ req' = [req EXCEPT ![t].pc = "done"]
    /\ UNCHANGED <<now, user_request_times, last_cleanup, admitted, internalVars,
                   files, iresp, nreq>>

(***************************************************************************)
(* GET /status/<job_id> and GET /output/<file_id> of the public tier.      *)
(***************************************************************************)
\* the proxy routes without their @require_auth_token
StartProxyNoAuth(t, ep, token, target, limit) ==
    /\ req[t].pc \in {"idle", "done"}
    /\ nreq < limit
    /\ nreq' = nreq + 1
    /\ req' = [req EXCEPT ![t] = [IdleReq EXCEPT !.ep = ep, !.token = token,
                                                !.target = target, !.pc = "proxy"]]
    /\ UNCHANGED <<now, publicVars, internalVars, files, iresp>>

\* the request arrives; require_auth_token of app.py
StartProxy(t, ep, token, target, limit) ==
    /\ req[t].pc \in {"idle", "done"}
    /\ nreq < limit
    /\ nreq' = nreq + 1
    /\ LET r == [IdleReq EXCEPT !.ep = ep, !.token = token, !.target = target]
       IN  req' = [req EXCEPT ![t] =
                     IF AuthOk(token) THEN [r EXCEPT !.pc = "proxy"]
                     ELSE Answer(r, 401, "Unauthorized")]
    /\ UNCHANGED <<now, publicVars, internalVars, files, iresp>>

\* the call to the internal tier with the tier's own token, and the answer
\* passed on: get_job_status answers 500 and serve_image 404 on any failure
Proxy(t) ==
    /\ req[t].pc = "proxy"
    /\ LET r == [req[t] EXCEPT !.fwd = TRUE]
       IN  IF r.ep = "status"
           THEN \/ \E code \in {200, 401, 404} :
                      /\ IStatus(AI_SERVICE_AUTH_TOKEN, r.target, code)
                      /\ req' = [req EXCEPT ![t] =
                                   IF code = 200 THEN Answer(r, 200, "")
                                   ELSE Answer(r, 500, "Failed to check job status")]
                \/ /\ req' = [req EXCEPT ![t] =
                                Answer(r, 500, "Failed to check job status")]
                   /\ UNCHANGED seen
           ELSE /\ UNCHANGED seen
                /\ \/ req' = [req EXCEPT ![t] =
                                IF IOutputCode(AI_SERVICE_AUTH_TOKEN, r.target) = 200
                                THEN Answer(r, 200, "")
                                ELSE Answer(r, 404, "Image not found")]
                   \/ req' = [req EXCEPT ![t] = Answer(r, 404, "Image not found")]
    /\ UNCHANGED <<now, publicVars, jobs, file_mapping, files, pipeline, jt, iresp,
                   nreq>>

(***************************************************************************)
(* Calls made to the internal tier directly, by any client.                *)
(***************************************************************************)
DirectGenerate(token, data, user_id, limit) ==
    /\ Cardinality(DOMAIN jobs) < limit
    /\ \E code \in {200, 400, 401, 500} :
          /\ IGenerate(token, data, user_id, code)
          /\ iresp' = [ep |-> "generate", token |-> token, code |-> code]
    /\ UNCHANGED <<now, publicVars, req, file_mapping, files, pipeline, seen, nreq>>

DirectStatus(token, job_id) ==
    /\ \E code \in {200, 401, 404} :
          /\ IStatus(token, job_id, code)
          /\ iresp' = [ep |-> "status", token |-> token, code |-> code,
                       job_id |-> job_id]
    /\ UNCHANGED <<now, publicVars, req, jobs, file_mapping, files, pipeline, jt, nreq>>

\* the last segment of a requested URL /output/<segment>: uuid, whether the
\* <uuid:file_id> converter of the route accepts it; n, the identifier it
\* converts to; path, the file the segment would name if it were joined to
\* the output directory
UuidSeg(file_id) == [uuid |-> TRUE, n |-> file_id, path |-> NoPath]

\* serve_image() of the internal tier: what is served is the file at the
\* path the mapping holds for the identifier
DirectOutput(token, file_id) ==
    /\ iresp' = [ep |-> "output", token |-> token,
                 code |-> IOutputCode(token, file_id),
                 requested |-> UuidSeg(file_id),
                 served |-> IF IOutputCode(token, file_id) = 200
                            THEN file_mapping[file_id] ELSE NoPath]
    /\ UNCHANGED <<now, publicVars, req, internalVars, files, nreq>>

\* a route /output/<path:filename> that serves the file the segment names
DirectServePath(seg) ==
    /\ iresp' = [ep |-> "output", token |-> AI_SERVICE_AUTH_TOKEN,
                 code |-> IF seg.path \in files THEN 200 ELSE 404,
                 requested |-> seg,
                 served |-> IF seg.path \in files THEN seg.path ELSE NoPath]
    /\ UNCHANGED <<now, publicVars, req, internalVars, files, nreq>>

\* GET /output/<segment> of the internal tier with a segment the
\* <uuid:file_id> converter rejects: no route matches, the answer is 404 and
\* serve_image is not entered
DirectNoRoute(seg) ==
    /\ ~seg.uuid
    /\ iresp' = [ep |-> "output", token |-> AI_SERVICE_AUTH_TOKEN, code |-> 404,
                 requested |-> seg, served |-> NoPath]
    /\ UNCHANGED <<now, publicVars, req, internalVars, files, nreq>>

\* the same request on the public tier: no route matches, nothing is
\* forwarded
NoRoute(t, seg, limit) ==
    /\ ~seg.uuid
    /\ req[t].pc \in {"idle", "done"}
    /\ nreq < limit
    /\ nreq' = nreq + 1
    /\ req' = [req EXCEPT ![t] =
                 Answer([IdleReq EXCEPT !.ep = "output",
                                        !.token = AI_SERVICE_AUTH_TOKEN],
                        404, "Not Found")]
    /\ UNCHANGED <<now, publicVars, internalVars, files, iresp>>

DirectHealth(token) ==
    /\ \E code \in {200, 401, 500} :
          /\ IHealth(token, code)
          /\ iresp' = [ep |-> "health", token |-> token, code |-> code]
    /\ UNCHANGED <<now, publicVars, req, jobs, file_mapping, files, jt, seen, nreq>>

(***************************************************************************)
(* process_job: the background thread of job j.                            *)
(***************************************************************************)
\* the job after lines 201-206
Completed(job, job_id, seed) ==
    [job EXCEPT !.status = "completed", !.has_result = TRUE,
                !.image_path = job_id, !.seed = seed]

\* the job after lines 210-211
Failed(job, err) ==
    [job EXCEPT !.status = "failed", !.has_error = TRUE, !.error = err]

\* image_utils.py lines 85-86 and 142-143: the characters of the pattern
\* removed from prompt[:10], then every blank replaced by an underscore
InvalidChars == {"<", ">", ":", "\"", "/", "\\", "|", "?", "*", "(", ")", "{", "}"}

Sanitize(text) ==
    LET kept == SelectSeq(text, LAMBDA c : c \notin InvalidChars)
    IN  [i \in 1 .. Len(kept) |-> IF kept[i] = " " THEN "_" ELSE kept[i]]

\* the file name save_image and process_image build: the user's directory,
\* the sanitized start of the prompt and the clock reading, to the second
ImagePath(user_id, text, clock) ==
    [user |-> user_id, name |-> Sanitize(text), sec |-> clock]

\* the except clause is entered with exception e
Raise(j, e) == jt' = [jt EXCEPT ![j].pc = "except", ![j].err = e]

\* initialize_pipeline(): the object it returns, a new one at every call
NewPipeline == IF pipeline = None THEN "pipe" ELSE "pipe2"

\* get_pipeline, line 167: the global is read with pipeline_lock free; when
\* it is set, get_pipeline returns it (line 172)
GetPipeline(j) ==
    /\ jt[j].pc = "start"
    /\ jt' = [jt EXCEPT ![j] =
                IF pipeline # None
                THEN [@ EXCEPT !.pc = "generating", !.pipe = pipeline]
                ELSE [@ EXCEPT !.pc = "init"]]
    /\ UNCHANGED <<now, publicVars, req, jobs, file_mapping, pipeline, files, seen,
                   iresp, nreq>>

\* get_pipeline under pipeline_lock without the second test of line 170
InitPipelineUnchecked(j) ==
    /\ jt[j].pc = "init"
    /\ pipeline' = NewPipeline
    /\ jt' = [jt EXCEPT ![j].pc = "generating", ![j].pipe = NewPipeline]
    /\ UNCHANGED <<now, publicVars, req, jobs, file_mapping, files, seen, iresp,
                   nreq>>

\* get_pipeline, lines 169-172, under pipeline_lock: the global is tested
\* again; initialize_pipeline returns the pipeline or raises
InitPipeline(j) ==
    /\ jt[j].pc = "init"
    /\ IF pipeline # None
       THEN /\ jt' = [jt EXCEPT ![j].pc = "generating", ![j].pipe = pipeline]
            /\ UNCHANGED pipeline
       ELSE \/ /\ pipeline' = NewPipeline
               /\ jt' = [jt EXCEPT ![j].pc = "generating", ![j].pipe = NewPipeline]
            \/ /\ Raise(j, "pipeline initialization failed")
               /\ UNCHANGED pipeline
    /\ UNCHANGED <<now, publicVars, req, jobs, file_mapping, files, seen, iresp,
                   nreq>>

\* process_image, lines 133-139: the generation ends and save_image writes
\* the file, or one of them raises
SaveImage(j) ==
    /\ jt[j].pc = "generating"
    /\ \/ /\ \E seed \in (IF jobs[j].data.seed = "absent" THEN Seeds
                          ELSE {jobs[j].data.seed}) :
                jt' = [jt EXCEPT ![j].pc = "saved", ![j].seed = seed]
          /\ files' = files \cup {ImagePath(jobs[j].user, jobs[j].data.text, now)}
       \/ /\ Raise(j, "image generation failed")
          /\ UNCHANGED files
    /\ UNCHANGED <<now, publicVars, req, jobs, file_mapping, pipeline, seen, iresp,
                   nreq>>

\* process_image, lines 141-148: the path returned is built from a second
\* reading of the clock
ReturnPath(j) ==
    /\ jt[j].pc = "saved"
    /\ jt' = [jt EXCEPT ![j].pc = "register",
                        ![j].path = ImagePath(jobs[j].user, jobs[j].data.text, now)]
    /\ UNCHANGED <<now, publicVars, req, jobs, file_mapping, pipeline, files, seen,
                   iresp, nreq>>

\* lines 191-197: relpath, then the mapping is stored under
\* file_mapping_lock; a fault here raises before the store
Register(j) ==
    /\ jt[j].pc = "register"
    /\ \/ /\ file_mapping' = Put(file_mapping, j, jt[j].path)
          /\ jt' = [jt EXCEPT ![j].pc = "complete"]
       \/ /\ Raise(j, "path is not under the output directory")
          /\ UNCHANGED file_mapping
    /\ UNCHANGED <<now, publicVars, req, jobs, pipeline, files, seen, iresp, nreq>>

\* lines 199-206 with a statement that raises after the status is written
CompleteThenRaise(j) ==
    /\ jt[j].pc = "complete"
    /\ jobs' = [jobs EXCEPT ![j] = Completed(@, j, jt[j].seed)]
    /\ Raise(j, "result could not be stored")
    /\ UNCHANGED <<now, publicVars, req, file_mapping, pipeline, files, seen, iresp,
                   nreq>>

\* lines 199-206, under jobs_lock
Complete(j) ==
    /\ jt[j].pc = "complete"
    /\ jobs' = [jobs EXCEPT ![j] = Completed(@, j, jt[j].seed)]
    /\ jt' = [jt EXCEPT ![j].pc = "done"]
    /\ UNCHANGED <<now, publicVars, req, file_mapping, pipeline, files, seen, iresp,
                   nreq>>

\* an except clause that logs the fault and leaves the job as it is
FailLogged(j) ==
    /\ jt[j].pc = "except"
    /\ jt' = [jt EXCEPT ![j].pc = "done"]
    /\ UNCHANGED <<now, publicVars, req, jobs, file_mapping, pipeline, files, seen,
                   iresp, nreq>>

\* lines 207-211, under jobs_lock
Fail(j) ==
    /\ jt[j].pc = "except"
    /\ jobs' = [jobs EXCEPT ![j] = Failed(@, jt[j].err)]
    /\ jt' = [jt EXCEPT ![j].pc = "done"]
    /\ UNCHANGED <<now, publicVars, req, file_mapping, pipeline, files, seen, iresp,
                   nreq>>

\* process_job when the pipeline was constructed at startup
RunJob(j) ==
    \/ GetPipeline(j)
    \/ SaveImage(j)
    \/ ReturnPath(j)
    \/ Register(j)
    \/ Complete(j)
    \/ Fail(j)

\* process_job when get_pipeline may have to construct the pipeline
JobStep(j) ==
    \/ RunJob(j)
    \/ InitPipeline(j)

\* the clock moves on
Tick ==
    /\ \E i \in Instants : i > now /\ now' = i
    /\ UNCHANGED <<publicVars, req, internalVars, files, iresp, nreq>>

(***************************************************************************)
(* Initial states.                                                         *)
(***************************************************************************)
\* both tiers just started, with the pipeline as pipe
Started(pipe) ==
    /\ now = 0
    /\ user_request_times = EmptyDict
    /\ user_concurrent_jobs = [u \in AllUsers |-> 0]
    /\ last_cleanup = 0
    /\ req = [t \in Threads |-> IdleReq]
    /\ jobs = EmptyDict
    /\ file_mapping = EmptyDict
    /\ pipeline = pipe
    /\ jt = [j \in JobIds |-> IdleJt]
    /\ files = {}
    /\ iresp = [ep |-> None, token |-> None, code |-> 0]
    /\ admitted = [u \in AllUsers |-> <<>>]
    /\ seen = [j \in JobIds |-> "none"]
    /\ nreq = 0

\* ai_service.py run as a script: initialize_service has constructed the
\* pipeline before the first request is served
Init == Started("pipe")

\* ai_service.py imported by a server: the pipeline is constructed on demand
InitLazy == Started(None)

(***************************************************************************)
(* Spec: POST /generate on the public tier and the jobs it starts, within  *)
(* one reading of the clock.                                               *)
(***************************************************************************)
Next ==
    \/ \E t \in Threads, u \in GateUsers, b \in Bodies :
          StartGenerate(t, u, None, b, MaxRequests)
    \/ \E t \in Threads : CleanupCheck(t)
    \/ \E t \in Threads : ReadTime(t)
    \/ \E t \in Threads : Admit(t)
    \/ \E t \in Threads : Handle(t)
    \/ \E t \in Threads : Release(t)
    \/ \E j \in JobIds : RunJob(j)

Spec == Init /\ [][Next]_vars

(***************************************************************************)
(* SpecRate: the rate limiter of a loaded server while the clock moves     *)
(* across the end of the window.  The server has admitted a burst of n     *)
(* requests at time 0, the users arriving in the order of UserOrder, each  *)
(* with as many requests as the limits allow; the requests have returned   *)
(* (the internal tier was not reachable, so no job exists).                *)
(***************************************************************************)
Min(a, b) == IF a <= b THEN a ELSE b

BurstOf(i, n) ==
    Max(0, Min(MAX_REQUESTS_PER_USER, n - MAX_REQUESTS_PER_USER * (i - 1)))

BurstTimes(n) ==
    LET idx(u) == CHOOSE i \in 1 .. Len(UserOrder) : UserOrder[i] = u
    IN  [u \in AllUsers |-> [k \in 1 .. BurstOf(idx(u), n) |-> 0]]

\* no load, one user at the per-user limit, the server one short of the
\* global limit and at it
BurstSizes ==
    {0, MAX_REQUESTS_PER_USER, GLOBAL_RATE_LIMIT - 1, GLOBAL_RATE_LIMIT}

\* the users whose requests arrive next: one of the burst's first users
\* and its last
RateUsers == {"u1", "u4"}

\* the server after a burst of n requests, with held[u] requests of user u
\* inside generate_image on threads that do not move during the run
Loaded(n, held) ==
    /\ now = 0
    /\ user_request_times =
           [u \in {x \in AllUsers : BurstTimes(n)[x] # <<>>} |-> BurstTimes(n)[u]]
    /\ admitted = BurstTimes(n)
    /\ user_concurrent_jobs = held
    /\ last_cleanup = 0
    /\ req = [t \in Threads |-> IdleReq]
    /\ jobs = EmptyDict
    /\ file_mapping = EmptyDict
    /\ pipeline = "pipe"
    /\ jt = [j \in JobIds |-> IdleJt]
    /\ files = {}
    /\ iresp = [ep |-> None, token |-> None, code |-> 0]
    /\ seen = [j \in JobIds |-> "none"]
    /\ nreq = 0

InitRate == \E n \in BurstSizes : Loaded(n, [u \in AllUsers |-> 0])

NextRate ==
    \/ \E t \in Threads, u \in RateUsers :
          StartGenerate(t, u, None, GoodBody, MaxRateRequests)
    \/ \E t \in Threads : CleanupCheck(t)
    \/ \E t \in Threads : Prune(t)
    \/ \E t \in Threads : ReadTime(t)
    \/ \E t \in Threads : Admit(t)
    \/ \E t \in Threads : Handle(t)
    \/ \E t \in Threads : Release(t)
    \/ Tick

SpecRate == InitRate /\ [][NextRate]_vars

(***************************************************************************)
(* SpecLimits: the same rate limiter, started with the in-flight counter   *)
(* of each arriving user at zero or at its limit, so that every            *)
(* combination of exceeded limits meets check_rate_limit.                  *)
(***************************************************************************)
HeldCounts == {0, MAX_CONCURRENT_JOBS}

InitLimits ==
    \E n \in BurstSizes, held \in [RateUsers -> HeldCounts] :
        Loaded(n, [u \in AllUsers |-> IF u \in RateUsers THEN held[u] ELSE 0])

SpecLimits == InitLimits /\ [][NextRate]_vars

(***************************************************************************)
(* SpecAuth: every endpoint of both tiers, called with and without the     *)
(* token and the session, on a server that has served one job of user u1   *)
(* to completion; the threads of the jobs created meanwhile have not run   *)
(* yet.                                                                    *)
(***************************************************************************)
ServedPath == ImagePath("u1", GoodBody.text, 0)

InitServed ==
    /\ now = 0
    /\ user_request_times = [u \in {"u1"} |-> <<0>>]
    /\ admitted = [u \in AllUsers |-> IF u = "u1" THEN <<0>> ELSE <<>>]
    /\ user_concurrent_jobs = [u \in AllUsers |-> 0]
    /\ last_cleanup = 0
    /\ req = [t \in Threads |-> IdleReq]
    /\ jobs = [j \in {1} |-> Completed(NewJob("u1", GoodBody), 1, "random")]
    /\ file_mapping = [j \in {1} |-> ServedPath]
    /\ pipeline = "pipe"
    /\ jt = [j \in JobIds |->
               IF j = 1 THEN [pc |-> "done", path |-> ServedPath,
                              seed |-> "random", err |-> "", pipe |-> "pipe",
                              locks |-> {}]
               ELSE IdleJt]
    /\ files = {ServedPath}
    /\ iresp = [ep |-> None, token |-> None, code |-> 0]
    /\ seen = [j \in JobIds |-> "none"]
    /\ nreq = 0

\* the requests of this specification are served one after the other
AuthThreads == {1}

\* segments that are no UUID: a path that leaves the output directory
\* ('../../etc/passwd'), and the name of a file that exists under it
TraversalSeg == [uuid |-> FALSE, n |-> 0, path |-> [user |-> "..", name |-> <<>>, sec |-> 0]]
GuessedSeg == [uuid |-> FALSE, n |-> 0, path |-> ServedPath]
BadSegments == {TraversalSeg, GuessedSeg}

NextAuth ==
    \/ \E t \in AuthThreads, u \in {"u1", None}, tok \in Tokens :
          StartGenerate(t, u, tok, GoodBody, MaxAuthRequests)
    \/ \E t \in AuthThreads, ep \in {"status", "output"}, tok \in Tokens,
          target \in 1 .. MaxDirectJobs :
          StartProxy(t, ep, tok, target, MaxAuthRequests)
    \/ \E t \in AuthThreads : CleanupCheck(t)
    \/ \E t \in AuthThreads : ReadTime(t)
    \/ \E t \in AuthThreads : Admit(t)
    \/ \E t \in AuthThreads : Handle(t)
    \/ \E t \in AuthThreads : Release(t)
    \/ \E t \in AuthThreads : Proxy(t)
    \/ \E tok \in Tokens, uid \in {"u1", BadUserId} :
          DirectGenerate(tok, GoodBody, uid, MaxDirectJobs)
    \/ \E tok \in Tokens, j \in 1 .. MaxDirectJobs : DirectStatus(tok, j)
    \/ \E tok \in Tokens, j \in 1 .. MaxDirectJobs : DirectOutput(tok, j)
    \/ \E tok \in Tokens : DirectHealth(tok)
    \/ \E seg \in BadSegments : DirectNoRoute(seg)
    \/ \E t \in AuthThreads, seg \in BadSegments : NoRoute(t, seg, MaxAuthRequests)

SpecAuth == InitServed /\ [][NextAuth]_vars

(***************************************************************************)
(* SpecJobs: the internal tier alone: jobs submitted to it, their          *)
(* background threads and the status reads.                                *)
(***************************************************************************)
NextJobs ==
    \/ \E uid \in GateUsers, b \in {GoodBody, LongBody} :
          DirectGenerate(AI_SERVICE_AUTH_TOKEN, b, uid, MaxDirectJobs)
    \/ \E j \in 1 .. MaxDirectJobs : DirectStatus(AI_SERVICE_AUTH_TOKEN, j)
    \/ \E j \in JobIds : JobStep(j)

SpecJobs == InitLazy /\ [][NextJobs]_vars

\* every started thread is scheduled again and again, and the worker call
\* returns or raises
SpecJobsFair == SpecJobs /\ \A j \in JobIds : WF_vars(JobStep(j))

(***************************************************************************)
(* SpecValidate: POST /generate of the internal tier with bodies on both   *)
(* sides of every check of validate_input.                                 *)
(***************************************************************************)
ValidateBodies ==
    {GoodBody, LongBody, UnsafeBody, EmptyBody, PaddedBody, FractionBody,
     [GoodBody EXCEPT !.seed = "hi"], [GoodBody EXCEPT !.seed = "over"],
     [GoodBody EXCEPT !.steps = MAX_STEPS + 1],
     [GoodBody EXCEPT !.width = MIN_DIMENSION - 1]}

NextValidate ==
    \/ \E uid \in {"u1", BadUserId}, b \in ValidateBodies :
          DirectGenerate(AI_SERVICE_AUTH_TOKEN, b, uid, MaxDirectJobs)
    \/ \E j \in 1 .. MaxDirectJobs : DirectStatus(AI_SERVICE_AUTH_TOKEN, j)
    \/ \E j \in JobIds : JobStep(j)

SpecValidate == InitLazy /\ [][NextValidate]_vars

(***************************************************************************)
(* SpecFiles: jobs of the internal tier while the clock moves, with        *)
(* prompts that are equal, that differ only in characters the file name    *)
(* loses, and that differ in the file name.                                *)
(***************************************************************************)
FileBodies == {GoodBody, UnderscoreBody, BracketBody, OtherBody}

NextFiles ==
    \/ \E uid \in GateUsers, b \in FileBodies :
          DirectGenerate(AI_SERVICE_AUTH_TOKEN, b, uid, MaxDirectJobs)
    \/ \E j \in 1 .. MaxDirectJobs : DirectOutput(AI_SERVICE_AUTH_TOKEN, j)
    \/ \E j \in JobIds : JobStep(j)
    \/ Tick

SpecFiles == InitLazy /\ [][NextFiles]_vars

(***************************************************************************)
(* SpecLocks: the internal tier with the locks of process_job taken and    *)
(* released in steps of their own.  jt[j].locks is the set of locks the    *)
(* thread of job j holds; a request handler takes its one lock and leaves  *)
(* it within its step, which it can take when the lock is free.            *)
(***************************************************************************)
Free(lock) == \A j \in JobIds : lock \notin jt[j].locks

\* thread j enters the with block of lock at pc from
Acquire(j, lock, from, to) ==
    /\ jt[j].pc = from
    /\ Free(lock)
    /\ jt' = [jt EXCEPT ![j].pc = to, ![j].locks = @ \cup {lock}]
    /\ UNCHANGED <<now, publicVars, req, jobs, file_mapping, pipeline, files, seen,
                   iresp, nreq>>

\* get_pipeline, line 169
LockPipeline(j) == Acquire(j, "pipeline_lock", "init", "init_locked")

\* get_pipeline, lines 170-172, and the end of the with block (also left
\* by the exception of initialize_pipeline)
InitPipelineLocked(j) ==
    /\ jt[j].pc = "init_locked"
    /\ IF pipeline # None
       THEN /\ jt' = [jt EXCEPT ![j].pc = "generating", ![j].pipe = pipeline,
                                ![j].locks = @ \ {"pipeline_lock"}]
            /\ UNCHANGED pipeline
       ELSE \/ /\ pipeline' = NewPipeline
               /\ jt' = [jt EXCEPT ![j].pc = "generating", ![j].pipe = NewPipeline,
                                   ![j].locks = @ \ {"pipeline_lock"}]
            \/ /\ jt' = [jt EXCEPT ![j].pc = "except",
                                   ![j].err = "pipeline initialization failed",
                                   ![j].locks = @ \ {"pipeline_lock"}]
               /\ UNCHANGED pipeline
    /\ UNCHANGED <<now, publicVars, req, jobs, file_mapping, files, seen, iresp,
                   nreq>>

\* lines 192-195: relpath, which may raise, then file_mapping_lock
LockMapping(j) ==
    \/ Acquire(j, "file_mapping_lock", "register", "register_locked")
    \/ /\ jt[j].pc = "register"
       /\ Raise(j, "path is not under the output directory")
       /\ UNCHANGED <<now, publicVars, req, jobs, file_mapping, pipeline, files,
                      seen, iresp, nreq>>

\* lines 196-197 with the with block of file_mapping_lock left open
RegisterLockedHolding(j) ==
    /\ jt[j].pc = "register_locked"
    /\ file_mapping' = Put(file_mapping, j, jt[j].path)
    /\ jt' = [jt EXCEPT ![j].pc = "complete"]
    /\ UNCHANGED <<now, publicVars, req, jobs, pipeline, files, seen, iresp, nreq>>

\* the with block of file_mapping_lock without line 196
RegisterLockedDeferred(j) ==
    /\ jt[j].pc = "register_locked"
    /\ jt' = [jt EXCEPT ![j].pc = "complete",
                        ![j].locks = @ \ {"file_mapping_lock"}]
    /\ UNCHANGED <<now, publicVars, req, jobs, file_mapping, pipeline, files, seen,
                   iresp, nreq>>

\* lines 196-197 and the end of the with block
RegisterLocked(j) ==
    /\ jt[j].pc = "register_locked"
    /\ file_mapping' = Put(file_mapping, j, jt[j].path)
    /\ jt' = [jt EXCEPT ![j].pc = "complete",
                        ![j].locks = @ \ {"file_mapping_lock"}]
    /\ UNCHANGED <<now, publicVars, req, jobs, pipeline, files, seen, iresp, nreq>>

\* lines 195 and 200 as nested with blocks
LockJobsNested(j) ==
    /\ jt[j].pc \in {"complete", "except"}
    /\ Free("jobs_lock") /\ Free("file_mapping_lock")
    /\ jt' = [jt EXCEPT ![j].pc = IF @ = "complete" THEN "complete_locked"
                                  ELSE "except_locked",
                        ![j].locks = @ \cup {"jobs_lock", "file_mapping_lock"}]
    /\ UNCHANGED <<now, publicVars, req, jobs, file_mapping, pipeline, files, seen,
                   iresp, nreq>>

\* line 200 and line 209
LockJobs(j) ==
    \/ Acquire(j, "jobs_lock", "complete", "complete_locked")
    \/ Acquire(j, "jobs_lock", "except", "except_locked")

\* line 201 followed by the end of a with block that covers it alone
CompleteStatusUnlocked(j) ==
    /\ jt[j].pc = "complete_locked"
    /\ jobs' = [jobs EXCEPT ![j].status = "completed"]
    /\ jt' = [jt EXCEPT ![j].pc = "result_locked", ![j].locks = @ \ {"jobs_lock"}]
    /\ UNCHANGED <<now, publicVars, req, file_mapping, pipeline, files, seen, iresp,
                   nreq>>

\* line 201
CompleteStatus(j) ==
    /\ jt[j].pc = "complete_locked"
    /\ jobs' = [jobs EXCEPT ![j].status = "completed"]
    /\ jt' = [jt EXCEPT ![j].pc = "result_locked"]
    /\ UNCHANGED <<now, publicVars, req, file_mapping, pipeline, files, seen, iresp,
                   nreq>>

\* lines 202-206 and the end of the with block
CompleteLocked(j) ==
    /\ jt[j].pc = "result_locked"
    /\ jobs' = [jobs EXCEPT ![j] = Completed(@, j, jt[j].seed)]
    /\ jt' = [jt EXCEPT ![j].pc = "done", ![j].locks = @ \ {"jobs_lock"}]
    /\ UNCHANGED <<now, publicVars, req, file_mapping, pipeline, files, seen, iresp,
                   nreq>>

\* line 210
FailStatus(j) ==
    /\ jt[j].pc = "except_locked"
    /\ jobs' = [jobs EXCEPT ![j].status = "failed"]
    /\ jt' = [jt EXCEPT ![j].pc = "error_locked"]
    /\ UNCHANGED <<now, publicVars, req, file_mapping, pipeline, files, seen, iresp,
                   nreq>>

\* line 211 and the end of the with block
FailLocked(j) ==
    /\ jt[j].pc = "error_locked"
    /\ jobs' = [jobs EXCEPT ![j] = Failed(@, jt[j].err)]
    /\ jt' = [jt EXCEPT ![j].pc = "done", ![j].locks = @ \ {"jobs_lock"}]
    /\ UNCHANGED <<now, publicVars, req, file_mapping, pipeline, files, seen, iresp,
                   nreq>>

\* process_job, lock by lock
LockedJobStep(j) ==
    \/ GetPipeline(j)
    \/ LockPipeline(j)
    \/ InitPipelineLocked(j)
    \/ SaveImage(j)
    \/ ReturnPath(j)
    \/ LockMapping(j)
    \/ RegisterLocked(j)
    \/ LockJobs(j)
    \/ CompleteStatus(j)
    \/ CompleteLocked(j)
    \/ FailStatus(j)
    \/ FailLocked(j)

\* the request handlers of the internal tier, each inside its with block
LockedGenerate(uid) ==
    Free("jobs_lock") /\ DirectGenerate(AI_SERVICE_AUTH_TOKEN, GoodBody, uid, MaxDirectJobs)

LockedStatus(job_id) ==
    Free("jobs_lock") /\ DirectStatus(AI_SERVICE_AUTH_TOKEN, job_id)

LockedOutput(file_id) ==
    Free("file_mapping_lock") /\ DirectOutput(AI_SERVICE_AUTH_TOKEN, file_id)

LockedHealth ==
    (pipeline # None \/ Free("pipeline_lock")) /\ DirectHealth(AI_SERVICE_AUTH_TOKEN)

NextLocks ==
    \/ \E uid \in GateUsers : LockedGenerate(uid)
    \/ \E j \in 1 .. MaxDirectJobs : LockedStatus(j)
    \/ \E j \in 1 .. MaxDirectJobs : LockedOutput(j)
    \/ LockedHealth
    \/ \E j \in JobIds : LockedJobStep(j)

SpecLocks == InitLazy /\ [][NextLocks]_vars

(***************************************************************************)
(* SpecWait: both tiers lock by lock.  req[t].locks is the set of locks    *)
(* the public tier's thread t holds; check_rate_limit tests and writes in  *)
(* steps of their own inside its with block.                               *)
(***************************************************************************)
RequestLockFree == \A t \in Threads : "request_lock" \notin req[t].locks

\* app.py lines 106, 129 and 152: with request_lock
TakeRequestLock(t) ==
    /\ req[t].pc \in {"prune", "admit", "release"}
    /\ RequestLockFree
    /\ req' = [req EXCEPT ![t].locks = @ \cup {"request_lock"},
                          ![t].pc = CASE @ = "prune" -> "prune_locked"
                                      [] @ = "admit" -> "admit_locked"
                                      [] @ = "release" -> "release_locked"]
    /\ UNCHANGED <<now, publicVars, internalVars, files, iresp, nreq>>

\* cleanup_old_requests, lines 107-117 and the end of the with block
PruneLocked(t) ==
    /\ req[t].pc = "prune_locked"
    /\ user_request_times' =
           PruneDict(user_request_times, req[t].ct - RATE_LIMIT_WINDOW)
    /\ last_cleanup' = req[t].ct
    /\ req' = [req EXCEPT ![t].pc = "read_time", ![t].locks = @ \ {"request_lock"}]
    /\ UNCHANGED <<now, user_concurrent_jobs, admitted, internalVars, files,
                   iresp, nreq>>

\* the three tests in a with block of their own, left before lines 145-146
AdmitTestUnlocked(t) ==
    /\ req[t].pc = "admit_locked"
    /\ LET u == req[t].user
           urt == Put(user_request_times, u, Get(user_request_times, u))
           d == RateDecision(urt, user_concurrent_jobs, u)
       IN  /\ user_request_times' = urt
           /\ req' = [req EXCEPT ![t] =
                         IF d = "ok"
                         THEN [@ EXCEPT !.pc = "admit_write",
                                        !.locks = @ \ {"request_lock"}]
                         ELSE [Answer(@, 429, d) EXCEPT
                                        !.locks = @ \ {"request_lock"}]]
    /\ UNCHANGED <<now, user_concurrent_jobs, last_cleanup, admitted, internalVars,
                   files, iresp, nreq>>

\* check_rate_limit, lines 130-142: the three tests; a denial returns out of
\* the with block
AdmitTest(t) ==
    /\ req[t].pc = "admit_locked"
    /\ LET u == req[t].user
           urt == Put(user_request_times, u, Get(user_request_times, u))
           d == RateDecision(urt, user_concurrent_jobs, u)
       IN  /\ user_request_times' = urt
           /\ req' = [req EXCEPT ![t] =
                         IF d = "ok"
                         THEN [@ EXCEPT !.pc = "admit_write"]
                         ELSE [Answer(@, 429, d) EXCEPT
                                        !.locks = @ \ {"request_lock"}]]
    /\ UNCHANGED <<now, user_concurrent_jobs, last_cleanup, admitted, internalVars,
                   files, iresp, nreq>>

\* lines 145-146 with the with block of request_lock left open
AdmitWriteHolding(t) ==
    /\ req[t].pc = "admit_write"
    /\ LET u == req[t].user
       IN  /\ user_request_times' =
                  Put(user_request_times, u,
                      Append(Get(user_request_times, u), req[t].current_time))
           /\ user_concurrent_jobs' = [user_concurrent_jobs EXCEPT ![u] = @ + 1]
           /\ admitted' = [admitted EXCEPT ![u] = Append(@, req[t].current_time)]
    /\ req' = [req EXCEPT ![t].pc = "admitted"]
    /\ UNCHANGED <<now, last_cleanup, internalVars, files, iresp, nreq>>

\* check_rate_limit, lines 145-146 and the end of the with block
AdmitWrite(t) ==
    /\ req[t].pc = "admit_write"
    /\ LET u == req[t].user
       IN  /\ user_request_times' =
                  Put(user_request_times, u,
                      Append(Get(user_request_times, u), req[t].current_time))
           /\ user_concurrent_jobs' = [user_concurrent_jobs EXCEPT ![u] = @ + 1]
           /\ admitted' = [admitted EXCEPT ![u] = Append(@, req[t].current_time)]
    /\ req' = [req EXCEPT ![t].pc = "admitted", ![t].locks = @ \ {"request_lock"}]
    /\ UNCHANGED <<now, last_cleanup, internalVars, files, iresp, nreq>>

\* rate_limit_complete, line 153 and the end of the with block
ReleaseLocked(t) ==
    /\ req[t].pc = "release_locked"
    /\ user_concurrent_jobs' =
           [user_concurrent_jobs EXCEPT ![req[t].user] = Released(@)]
    /\ req' = [req EXCEPT ![t].pc = "done", ![t].locks = @ \ {"request_lock"}]
    /\ UNCHANGED <<now, user_request_times, last_cleanup, admitted, internalVars,
                   files, iresp, nreq>>

\* generate_image from line 220 on; generate() of the internal tier takes
\* jobs_lock within the call
LockedHandle(t) == Free("jobs_lock") /\ Handle(t)

WaitBodies == {GoodBody, EmptyBody}
WaitUsers == {"u1"}

\* both tiers idle since their start at time 0, the pipeline not yet
\* constructed; the first request arrives at once or a minute later
InitWait ==
    /\ now \in {0, RATE_LIMIT_WINDOW}
    /\ user_request_times = EmptyDict
    /\ user_concurrent_jobs = [u \in AllUsers |-> 0]
    /\ last_cleanup = 0
    /\ req = [t \in Threads |-> IdleReq]
    /\ jobs = EmptyDict
    /\ file_mapping = EmptyDict
    /\ pipeline = None
    /\ jt = [j \in JobIds |-> IdleJt]
    /\ files = {}
    /\ iresp = [ep |-> None, token |-> None, code |-> 0]
    /\ admitted = [u \in AllUsers |-> <<>>]
    /\ seen = [j \in JobIds |-> "none"]
    /\ nreq = 0

NextWait ==
    \/ \E t \in Threads, u \in WaitUsers, b \in WaitBodies :
          StartGenerate(t, u, None, b, MaxRateRequests)
    \/ \E t \in Threads : CleanupCheck(t)
    \/ \E t \in Threads : ReadTime(t)
    \/ \E t \in Threads : TakeRequestLock(t)
    \/ \E t \in Threads : PruneLocked(t)
    \/ \E t \in Threads : AdmitTest(t)
    \/ \E t \in Threads : AdmitWrite(t)
    \/ \E t \in Threads : LockedHandle(t)
    \/ \E t \in Threads : ReleaseLocked(t)
    \/ \E j \in JobIds : LockedJobStep(j)
    \/ \E j \in JobIds : LockedStatus(j)

SpecWait == InitWait /\ [][NextWait]_vars

(***************************************************************************)
(* SpecDeadlock: both tiers lock by lock, with the requests that take      *)
(* file_mapping_lock and pipeline_lock: fetches and health checks.         *)
(***************************************************************************)
NextDeadlock ==
    \/ \E t \in Threads, u \in WaitUsers, b \in WaitBodies :
          StartGenerate(t, u, None, b, MaxRateRequests)
    \/ \E t \in Threads : CleanupCheck(t)
    \/ \E t \in Threads : ReadTime(t)
    \/ \E t \in Threads : TakeRequestLock(t)
    \/ \E t \in Threads : PruneLocked(t)
    \/ \E t \in Threads : AdmitTest(t)
    \/ \E t \in Threads : AdmitWrite(t)
    \/ \E t \in Threads : LockedHandle(t)
    \/ \E t \in Threads : ReleaseLocked(t)
    \/ \E j \in JobIds : LockedJobStep(j)
    \/ \E j \in 1 .. MaxRateRequests : LockedOutput(j)
    \/ LockedHealth

SpecDeadlock == InitWait /\ [][NextDeadlock]_vars

(***************************************************************************)
(* SpecGate: the public tier alone, lock by lock; a request with an empty  *)
(* body returns at line 222 without rate_limit_complete.                   *)
(***************************************************************************)
NextGate ==
    \/ \E t \in Threads, u \in WaitUsers, b \in WaitBodies :
          StartGenerate(t, u, None, b, MaxRequests)
    \/ \E t \in Threads : CleanupCheck(t)
    \/ \E t \in Threads : ReadTime(t)
    \/ \E t \in Threads : TakeRequestLock(t)
    \/ \E t \in Threads : PruneLocked(t)
    \/ \E t \in Threads : AdmitTest(t)
    \/ \E t \in Threads : AdmitWrite(t)
    \/ \E t \in Threads : LockedHandle(t)
    \/ \E t \in Threads : ReleaseLocked(t)

SpecGate == InitWait /\ [][NextGate]_vars

(***************************************************************************)
(* SpecPipeline: the internal tier imported without its startup path, so   *)
(* that the first job threads and health checks construct the pipeline.    *)
(***************************************************************************)
NextPipeline ==
    \/ \E uid \in GateUsers :
          DirectGenerate(AI_SERVICE_AUTH_TOKEN, GoodBody, uid, MaxJobs)
    \/ \E j \in JobIds : JobStep(j)
    \/ DirectHealth(AI_SERVICE_AUTH_TOKEN)

SpecPipeline == InitLazy /\ [][NextPipeline]_vars

(***************************************************************************)
(* SpecRelease: the rate limiter with rate_limit_complete called as a      *)
(* function of its own, for any user at any time, beside the calls that    *)
(* generate_image makes.                                                   *)
(***************************************************************************)
\* rate_limit_complete(user_id), under request_lock; held is the counter the
\* call found
RateLimitComplete(user_id) ==
    /\ user_concurrent_jobs' =
           [user_concurrent_jobs EXCEPT ![user_id] = Released(@)]
    /\ iresp' = [ep |-> "rate_limit_complete", token |-> None, code |-> 0,
                 user |-> user_id, held |-> user_concurrent_jobs[user_id]]
    /\ UNCHANGED <<now, user_request_times, last_cleanup, admitted, req,
                   internalVars, files, nreq>>

NextRelease ==
    \/ \E t \in Threads, u \in GateUsers :
          StartGenerate(t, u, None, GoodBody, MaxRequests)
    \/ \E t \in Threads : CleanupCheck(t)
    \/ \E t \in Threads : ReadTime(t)
    \/ \E t \in Threads : Admit(t)
    \/ \E t \in Threads : Handle(t)
    \/ \E t \in Threads : Release(t)
    \/ \E u \in GateUsers : RateLimitComplete(u)

SpecRelease == Init /\ [][NextRelease]_vars

(***************************************************************************)
(* Claims.                                                                 *)
(***************************************************************************)
Processing(u) ==
    {j \in DOMAIN jobs : jobs[j].user = u /\ jobs[j].status = "processing"}

\* C1: in every reachable state no user owns more than MAX_CONCURRENT_JOBS
\* jobs whose status is 'processing'.
C1_ProcessingJobsWithinLimit ==
    \A u \in AllUsers : Cardinality(Processing(u)) <= MAX_CONCURRENT_JOBS

\* no request of user u is inside generate_image
Returned(u) ==
    \A t \in Threads : req[t].user = u => req[t].pc \in {"idle", "done"}

\* C2: every admitted request releases its slot exactly once on every exit
\* path: once all of a user's requests have returned, the user's in-flight
\* counter is 0.
C2_CounterZeroWhenAllReturned ==
    \A u \in AllUsers : Returned(u) => user_concurrent_jobs[u] = 0

\* the timestamps of log that lie in the window of length RATE_LIMIT_WINDOW
\* starting at from
InWindow(log, from) ==
    {k \in 1 .. Len(log) : from <= log[k] /\ log[k] < from + RATE_LIMIT_WINDOW}

\* C3: for every user and every interval of length RATE_LIMIT_WINDOW, at
\* most MAX_REQUESTS_PER_USER admitted requests of the user have their
\* recorded timestamp in the interval.
C3_PerUserWindowLimit ==
    \A u \in AllUsers : \A i \in 1 .. Len(admitted[u]) :
        Cardinality(InWindow(admitted[u], admitted[u][i])) <= MAX_REQUESTS_PER_USER

RECURSIVE CountInWindow(_, _)
CountInWindow(users, from) ==
    IF users = {} THEN 0
    ELSE LET u == CHOOSE x \in users : TRUE
         IN  Cardinality(InWindow(admitted[u], from))
             + CountInWindow(users \ {u}, from)

\* C4: for every interval of length RATE_LIMIT_WINDOW, at most
\* GLOBAL_RATE_LIMIT admitted requests of all users together have their
\* recorded timestamp in the interval.
C4_GlobalWindowLimit ==
    \A u \in AllUsers : \A i \in 1 .. Len(admitted[u]) :
        CountInWindow(AllUsers, admitted[u][i]) <= GLOBAL_RATE_LIMIT

\* thread t is inside a POST /generate whose parameters fail validation and
\* takes this step
InvalidRequestStep(t) ==
    /\ req[t].ep = "generate"
    /\ req[t].pc \notin {"idle", "done"}
    /\ req[t].body.kind = "json"
    /\ req[t].body.prompt_len > MAX_PROMPT_LENGTH
    /\ req'[t] # req[t]

\* C5: a POST /generate whose parameters fail validation consumes nothing:
\* none of its steps records a timestamp for a user or creates a job.
C5_InvalidRequestConsumesNothing ==
    [][\A t \in Threads :
          InvalidRequestStep(t) =>
              /\ \A u \in AllUsers :
                    Get(user_request_times', u) = Get(user_request_times, u)
              /\ jobs' = jobs]_vars

\* what an authentication failure must leave alone
stores == <<jobs, file_mapping, user_request_times, user_concurrent_jobs, jt, files>>

\* this step answers a direct call to the internal tier that came with a
\* missing or wrong token
BadTokenCall == iresp' # iresp /\ iresp'.token # AI_SERVICE_AUTH_TOKEN

\* this step answers a POST /generate of the public tier that came without
\* a user session
NoSessionCall(t) ==
    req'[t] # req[t] /\ req'[t].ep = "generate" /\ req'[t].user = None

C8_StatusChangesOnce ==
    [][\A j \in JobIds :
          /\ j \notin DOMAIN jobs /\ j \in DOMAIN jobs'
             => jobs'[j].status = "processing"
          /\ j \in DOMAIN jobs
             => /\ j \in DOMAIN jobs'
                /\ jobs'[j].status # jobs[j].status
                   => jobs[j].status = "processing" /\ jobs'[j].status \in Terminal
          /\ seen[j] \in Terminal => seen'[j] = seen[j]]_vars

C8_Witness ==
    \E j, k \in DOMAIN jobs :
        /\ seen[j] = "completed" /\ jobs[j].status = "completed"
        /\ seen[k] = "failed" /\ jobs[k].status = "failed"

C10_MappingWrittenOnce ==
    [][/\ \A id \in DOMAIN file_mapping :
             id \in DOMAIN file_mapping' /\ file_mapping'[id] = file_mapping[id]
       /\ \A j \in JobIds :
             jt[j].pc = "register" /\ jt'[j].pc = "complete"
             => j \notin DOMAIN file_mapping]_vars

C10_Witness ==
    \E i, k \in DOMAIN file_mapping :
        /\ i # k
        /\ file_mapping[i] # file_mapping[k]
        /\ jobs[i].status = "completed"

\* the requested identifier is a key of the artifact mapping
Registered(seg) == seg.uuid /\ seg.n \in DOMAIN file_mapping

\* C11: GET /output/<id> serves a file only when id is a key of the artifact
\* mapping, and then the file at the path stored for that key; a request that
\* passes authentication with an identifier never registered (an unknown
\* UUID, or a string that is no UUID) is answered 404, and no file is opened
\* for it; on the public tier a 200 is returned only for a registered id.
C11_OutputOnlyThroughMapping ==
    /\ iresp.ep = "output" =>
          /\ iresp.code = 200 =>
                /\ Registered(iresp.requested)
                /\ iresp.served = file_mapping[iresp.requested.n]
          /\ iresp.code # 200 => iresp.served = NoPath
          /\ ~Registered(iresp.requested) /\ iresp.token = AI_SERVICE_AUTH_TOKEN
             => iresp.code = 404
    /\ \A t \in Threads :
          req[t].ep = "output" /\ req[t].pc = "done"
          => /\ req[t].resp = 200 => req[t].target \in DOMAIN file_mapping
             /\ req[t].target \notin DOMAIN file_mapping
                   /\ req[t].token = AI_SERVICE_AUTH_TOKEN
                => req[t].resp = 404

C11_Witness ==
    /\ iresp.ep = "output" /\ iresp.requested = GuessedSeg /\ iresp.code = 404
    /\ \E t \in Threads :
          /\ req[t].ep = "output" /\ req[t].pc = "done" /\ req[t].resp = 200
          /\ req[t].target \in DOMAIN file_mapping

\* the timestamps of log in the window of length RATE_LIMIT_WINDOW that ends
\* at the clock reading at
InTrailing(log, at) ==
    {k \in 1 .. Len(log) : log[k] > at - RATE_LIMIT_WINDOW /\ log[k] <= at}

\* thread t leaves check_rate_limit in this step
Decides(t) == req[t].pc = "admit" /\ req'[t].pc # "admit"

C13_CounterNeverNegative ==
    /\ \A u \in AllUsers : user_concurrent_jobs[u] >= 0
    /\ iresp.ep = "rate_limit_complete" /\ iresp.held = 0
       => \/ user_concurrent_jobs[iresp.user] = 0
          \/ \E t \in Threads :
                req[t].user = iresp.user /\ req[t].pc \in {"admitted", "release"}

C13_Witness ==
    /\ iresp.ep = "rate_limit_complete" /\ iresp.held = 0
    /\ user_concurrent_jobs[iresp.user] = 0
    /\ admitted[iresp.user] = <<>>
    /\ \E u \in AllUsers : user_concurrent_jobs[u] > 0

\* C14: POST /generate of the internal tier answers without waiting for the
\* worker.  A job enters the store only in the step that answers 200, as
\* 'processing', with its thread started and not yet run, and no other
\* thread has moved in that step; a thread exists only for a job that is in
\* the store; a status read never answers 404 for a job of the store; and a
\* job is 'processing' exactly until its thread has written the terminal
\* status.
C14_SubmitReturnsAtOnce ==
    /\ [](\A j \in JobIds :
             /\ j \notin DOMAIN jobs => jt[j].pc = "none"
             /\ j \in DOMAIN jobs
                => (jobs[j].status = "processing" <=> jt[j].pc # "done"))
    /\ [](iresp.ep = "status" /\ iresp.code = 404
          => iresp.job_id \notin DOMAIN jobs)
    /\ [][\A j \in JobIds :
             j \notin DOMAIN jobs /\ j \in DOMAIN jobs'
             => /\ iresp'.ep = "generate" /\ iresp'.code = 200
                /\ jobs'[j].status = "processing"
                /\ jt'[j].pc = "start"
                /\ \A k \in JobIds \ {j} : jt'[k] = jt[k]]_vars

C14_Witness ==
    /\ iresp.ep = "status" /\ iresp.code = 200
    /\ iresp.job_id \in DOMAIN jobs
    /\ seen[iresp.job_id] = "processing"
    /\ jt[iresp.job_id].pc = "start"
    /\ \E k \in DOMAIN jobs : jt[k].pc = "generating"

\* C15: a status read with the token for a job id that is not in the job
\* store is answered 404, by the internal tier and by the public tier that
\* proxies to it.
C15_UnknownJobIs404 ==
    /\ iresp.ep = "status" /\ iresp.token = AI_SERVICE_AUTH_TOKEN
          /\ iresp.job_id \notin DOMAIN jobs
       => iresp.code = 404
    /\ \A t \in Threads :
          /\ req[t].ep = "status" /\ req[t].pc = "done"
          /\ req[t].token = AI_SERVICE_AUTH_TOKEN
          /\ req[t].target \notin DOMAIN jobs
          => req[t].resp = 404

\* the job threads inside process_image on the shared pipeline
Generating == {j \in JobIds : jt[j].pc \in {"generating", "saved"}}

\* C16: in no reachable state are two job threads inside the generation
\* step at once.
C16_OneGenerationAtATime == Cardinality(Generating) <= 1

\* the limits that the stored records of user u exceed
OverUser(u) == Len(Get(user_request_times, u)) >= MAX_REQUESTS_PER_USER
OverHeld(u) == user_concurrent_jobs[u] >= MAX_CONCURRENT_JOBS
OverGlobal ==
    SumLens(user_request_times, DOMAIN user_request_times) >= GLOBAL_RATE_LIMIT

\* thread t is answered 429 with reason r in this step
Denied(t, r) ==
    req'[t].pc = "done" /\ req'[t].resp = 429 /\ req'[t].reason = r

\* C17: check_rate_limit reports the first limit that fails in the order
\* per-user window count, per-user in-flight count, global window count, and
\* admits exactly when none fails.
C17_FirstFailingCheckReported ==
    [][\A t \in Threads :
          Decides(t) =>
              LET u == req[t].user
              IN  /\ OverUser(u) => Denied(t, "user_rate")
                  /\ ~OverUser(u) /\ OverHeld(u) => Denied(t, "concurrent")
                  /\ ~OverUser(u) /\ ~OverHeld(u) /\ OverGlobal
                     => Denied(t, "global")
                  /\ ~OverUser(u) /\ ~OverHeld(u) /\ ~OverGlobal
                     => req'[t].pc = "admitted"]_vars

\* a denial for the per-user window while all three limits are exceeded, and
\* one for the in-flight count while the global limit is exceeded too
C17_Witness ==
    /\ OverGlobal
    /\ \E t \in Threads :
          /\ req[t].pc = "done" /\ req[t].reason = "user_rate"
          /\ OverUser(req[t].user) /\ OverHeld(req[t].user)
    /\ \E t \in Threads :
          /\ req[t].pc = "done" /\ req[t].reason = "concurrent"
          /\ ~OverUser(req[t].user) /\ OverHeld(req[t].user)

\* the requests of user u between their admission and their release
InFlight(u) ==
    {t \in Threads : req[t].user = u /\ req[t].pc \in {"admitted", "release"}}

\* thread t is admitted in this step
Admitted(t) == Decides(t) /\ req'[t].pc = "admitted"

Newer(log, cutoff) == Cardinality({k \in 1 .. Len(log) : log[k] > cutoff})

RECURSIVE NewerOfAll(_, _)
NewerOfAll(users, cutoff) ==
    IF users = {} THEN 0
    ELSE LET u == CHOOSE x \in users : TRUE
         IN  Newer(Get(user_request_times, u), cutoff)
             + NewerOfAll(users \ {u}, cutoff)

\* C19: the counts check_rate_limit compares with the limits include only
\* timestamps of the trailing window: a request is denied for the per-user
\* limit only if MAX_REQUESTS_PER_USER stored timestamps of the user are
\* newer than RATE_LIMIT_WINDOW before the request's first clock reading,
\* and for the global limit only if GLOBAL_RATE_LIMIT stored timestamps are.
C19_OnlyWindowTimestampsCount ==
    [][\A t \in Threads :
          Decides(t) =>
              LET cutoff == req[t].ct - RATE_LIMIT_WINDOW
              IN  /\ Denied(t, "user_rate")
                     => Newer(Get(user_request_times, req[t].user), cutoff)
                           >= MAX_REQUESTS_PER_USER
                  /\ Denied(t, "global")
                     => NewerOfAll(AllUsers, cutoff) >= GLOBAL_RATE_LIMIT]_vars

\* thread t runs the pruning pass in this step
Passes(t) == req[t].pc = "prune" /\ req'[t].pc # "prune"

\* C20: a pruning pass runs only when CLEANUP_INTERVAL has passed since the
\* pass before it, also with several requests in cleanup_old_requests at
\* once; the pass removes exactly the timestamps not newer than its cutoff
\* and the users left without a timestamp; last_cleanup never moves
\* backwards.
C20_PruningOncePerInterval ==
    [][/\ \A t \in Threads :
             Passes(t) =>
                 /\ req[t].ct - last_cleanup >= CLEANUP_INTERVAL
                 /\ user_request_times' =
                        PruneDict(user_request_times, req[t].ct - RATE_LIMIT_WINDOW)
       /\ last_cleanup' >= last_cleanup]_vars

\* C21: the pipeline is constructed at most once: the global, once set,
\* holds the first instance for ever, and every get_pipeline call of a job
\* thread has returned that instance.
C21_PipelineConstructedOnce ==
    /\ [](pipeline \in {None, "pipe"})
    /\ [](\A j \in JobIds : jt[j].pipe # None => jt[j].pipe = pipeline)
    /\ [][pipeline # None => pipeline' = pipeline]_vars

\* every job thread has come back from get_pipeline with the one instance,
\* and a health check has succeeded
C21_Witness ==
    /\ pipeline = "pipe"
    /\ \A j \in JobIds : jt[j].pipe = "pipe"
    /\ iresp.ep = "health" /\ iresp.code = 200

\* thread j takes lock in this step
Takes(j, lock) == lock \notin jt[j].locks /\ lock \in jt'[j].locks

\* C22 as claimed: the completion step of process_job takes the job-store
\* lock before the artifact-mapping lock: a thread that takes
\* file_mapping_lock holds jobs_lock.
C22_JobsLockBeforeMappingLock ==
    [][\A j \in JobIds :
          Takes(j, "file_mapping_lock") => "jobs_lock" \in jt[j].locks]_vars

\* C22, amended: the completion step takes file_mapping_lock first, stores
\* the mapping and leaves the lock, and only then takes jobs_lock to write
\* 'completed'; a thread that takes either lock holds no lock, so no
\* operation holds two at once.
C22_MappingLockThenJobsLock ==
    [][\A j \in JobIds :
          /\ Takes(j, "file_mapping_lock")
             => jt[j].locks = {} /\ jobs[j].status = "processing"
                   /\ j \notin DOMAIN file_mapping
          /\ Takes(j, "jobs_lock")
             => /\ jt[j].locks = {}
                /\ jt[j].pc = "complete" => j \in DOMAIN file_mapping]_vars

C22_Witness ==
    \E j, k \in JobIds :
        /\ jt[j].pc = "complete_locked" /\ jt[j].locks = {"jobs_lock"}
        /\ j \in DOMAIN file_mapping
        /\ jt[k].pc = "register_locked" /\ jt[k].locks = {"file_mapping_lock"}

\* C23: in every state in which jobs_lock is free, a job has a result
\* (image_path and seed) exactly if its status is 'completed' and an error
\* text exactly if its status is 'failed'; a 'processing' job has neither.
C23_ResultIffCompleted ==
    Free("jobs_lock") =>
        \A j \in DOMAIN jobs :
            /\ jobs[j].has_result <=> jobs[j].status = "completed"
            /\ jobs[j].has_error <=> jobs[j].status = "failed"
            /\ jobs[j].has_result => jobs[j].image_path = j
            /\ jobs[j].status = "processing"
               => ~jobs[j].has_result /\ ~jobs[j].has_error

C23_Witness ==
    /\ Free("jobs_lock")
    /\ \E j, k \in DOMAIN jobs :
          /\ jobs[j].status = "completed" /\ jobs[j].has_result
          /\ jobs[k].status = "failed" /\ jobs[k].has_error
    /\ iresp.ep = "status" /\ iresp.code = 200

\* C24: whenever a status read returns 'completed' (with image_path
\* /output/<id>), id is already a key of the artifact mapping, and a fetch
\* of /output/<id> after such a read is not answered 404 for want of the
\* mapping entry.
C24_CompletedImpliesRegistered ==
    /\ [](\A j \in JobIds : seen[j] = "completed" => j \in DOMAIN file_mapping)
    /\ [][\A j \in JobIds :
             seen[j] # "completed" /\ seen'[j] = "completed"
             => /\ j \in DOMAIN file_mapping
                /\ jobs[j].has_result /\ jobs[j].image_path = j]_vars
    /\ [](iresp.ep = "output" /\ iresp.code = 404 /\ iresp.requested.uuid
             /\ iresp.requested.n \in JobIds
          => \/ seen[iresp.requested.n] # "completed"
             \/ file_mapping[iresp.requested.n] \notin files)

C24_Witness ==
    \E j \in JobIds :
        /\ seen[j] = "completed"
        /\ j \in DOMAIN file_mapping
        /\ iresp.ep = "output" /\ iresp.requested = UuidSeg(j) /\ iresp.code = 200
        /\ \E k \in JobIds : k # j /\ jt[k].pc = "register_locked"

\* the thread of job j is inside process_image
Computing(j) == jt[j].pc \in {"generating", "saved"}

\* the public tier's thread t has passed check_rate_limit and its HTTP call
\* to the internal tier has not returned
Calling(t) == req[t].pc = "admitted"

\* C25: no thread holds jobs_lock, file_mapping_lock or request_lock while
\* it is inside the generation step or while its HTTP call to the internal
\* tier is outstanding; whoever holds one of these locks can take its next
\* step without waiting for anything, so the lock comes free and a status
\* read, which needs jobs_lock only, completes while jobs are 'processing'.
C25_NoLockHeldAcrossCompute ==
    /\ [](\A j \in JobIds : Computing(j) => jt[j].locks = {})
    /\ [](\A t \in Threads : Calling(t) => req[t].locks = {})
    /\ [](\A j \in JobIds :
             jt[j].locks \cap {"jobs_lock", "file_mapping_lock"} # {}
             => ENABLED (\/ RegisterLocked(j) \/ CompleteStatus(j)
                         \/ CompleteLocked(j) \/ FailStatus(j) \/ FailLocked(j)))
    /\ [](\A t \in Threads :
             "request_lock" \in req[t].locks
             => ENABLED (\/ PruneLocked(t) \/ AdmitTest(t) \/ AdmitWrite(t)
                         \/ ReleaseLocked(t)))
    /\ [][\A t \in Threads :
             Calling(t) /\ ~Calling(t)' => req'[t].locks = {}]_vars

C25_Witness ==
    \E j \in JobIds, t, t2 \in Threads :
        /\ Computing(j) /\ seen[j] = "processing"
        /\ iresp.ep = "status" /\ iresp.code = 200 /\ iresp.job_id = j
        /\ Calling(t)
        /\ req[t2].locks = {"request_lock"}

\* the parameters a job was stored with lie within the limits
StoredWithinLimits(job) ==
    /\ 0 < job.data.prompt_len /\ job.data.prompt_len <= MAX_PROMPT_LENGTH
    /\ job.data.safe
    /\ MIN_DIMENSION <= job.data.height
    /\ 10 * job.data.height + job.data.height_frac <= 10 * MAX_DIMENSION
    /\ MIN_DIMENSION <= job.data.width /\ job.data.width <= MAX_DIMENSION
    /\ MIN_STEPS <= job.data.steps /\ job.data.steps <= MAX_STEPS
    /\ UuidShaped(job.user)
    /\ job.data.seed \in {"absent", "lo", "hi"}

\* C26: every job in the job store has a non-empty prompt of at most 200
\* allowed characters, height and width in 64..1024, steps in 1..100, a
\* UUID-shaped user_id and a seed absent or in 0..2^32-1; a request to the
\* internal tier that is not answered 200 creates no job and starts no
\* thread.
C26_StoredParametersValid ==
    /\ [](\A j \in DOMAIN jobs : StoredWithinLimits(jobs[j]))
    /\ [][iresp' # iresp /\ iresp'.ep = "generate" /\ iresp'.code # 200
             => jobs' = jobs /\ jt' = jt]_vars

\* C27: under any interleaving of concurrent requests every user's
\* in-flight counter is at most MAX_CONCURRENT_JOBS; the counter is raised
\* only by a thread that holds request_lock since it tested the counter,
\* and only from a value below the maximum.
C27_CounterAtMostMax ==
    /\ [](\A u \in AllUsers : user_concurrent_jobs[u] <= MAX_CONCURRENT_JOBS)
    /\ [](\A t \in Threads :
             req[t].pc = "admit_write"
             => /\ "request_lock" \in req[t].locks
                /\ user_concurrent_jobs[req[t].user] < MAX_CONCURRENT_JOBS)
    /\ [][\A u \in AllUsers :
             user_concurrent_jobs'[u] > user_concurrent_jobs[u]
             => \E t \in Threads :
                   /\ req[t].user = u /\ req[t].pc = "admit_write"
                   /\ req'[t].pc = "admitted"
                   /\ user_concurrent_jobs'[u] = user_concurrent_jobs[u] + 1]_vars

C27_Witness ==
    \E t, t2 \in Threads, u \in AllUsers :
        /\ user_concurrent_jobs[u] = MAX_CONCURRENT_JOBS
        /\ req[t].pc = "done" /\ req[t].resp = 429 /\ req[t].reason = "concurrent"
        /\ req[t].user = u
        /\ req[t2].pc = "admitted" /\ req[t2].user = u

LockNames == {"request_lock", "jobs_lock", "file_mapping_lock", "pipeline_lock"}

\* the threads that hold lock
Holders(lock) ==
    {<<"job", j>> : j \in {k \in JobIds : lock \in jt[k].locks}}
        \cup {<<"request", t>> : t \in {k \in Threads : lock \in req[k].locks}}

\* the thread is at the head of a with block, where it may have to wait
JobWaits(j) == jt[j].pc \in {"init", "register", "complete", "except"}
RequestWaits(t) == req[t].pc \in {"prune", "admit", "release"}

\* C28: no thread ever holds more than one of request_lock, jobs_lock,
\* file_mapping_lock and pipeline_lock, and a thread that takes a lock holds
\* none; each lock has at most one holder, and no holder of a lock is
\* waiting for a lock, so no cycle of lock waits is reachable.
C28_AtMostOneLockHeld ==
    /\ [](\A j \in JobIds : Cardinality(jt[j].locks) <= 1)
    /\ [](\A t \in Threads : Cardinality(req[t].locks) <= 1)
    /\ [](\A lock \in LockNames : Cardinality(Holders(lock)) <= 1)
    /\ [][\A j \in JobIds : jt'[j].locks \ jt[j].locks # {} => jt[j].locks = {}]_vars
    /\ [][\A t \in Threads :
             req'[t].locks \ req[t].locks # {} => req[t].locks = {}]_vars
    /\ [](\A j \in JobIds : jt[j].locks # {} => ~JobWaits(j))
    /\ [](\A t \in Threads : req[t].locks # {} => ~RequestWaits(t))

C28_Witness ==
    \E j, k \in JobIds, t \in Threads :
        /\ jt[j].locks = {"pipeline_lock"}
        /\ jt[k].locks = {"jobs_lock"}
        /\ req[t].locks = {"request_lock"}
        /\ iresp.ep = "health"

\* C29: the path process_image returns is the path save_image wrote, so the
\* path registered for a completed job names a file that exists and a fetch
\* of a completed job's /output/<id> is not answered 404.
C29_RegisteredPathIsWritten ==
    /\ \A j \in JobIds : jt[j].path # NoPath => jt[j].path \in files
    /\ \A j \in DOMAIN jobs :
          jobs[j].status = "completed" => file_mapping[j] \in files
    /\ iresp.ep = "output" /\ iresp.code = 404
       => \/ iresp.requested.n \notin DOMAIN jobs
          \/ jobs[iresp.requested.n].status # "completed"

\* C30: two distinct completed jobs never have the same registered path,
\* whatever their users, prompts and finishing times.
C30_DistinctJobsDistinctPaths ==
    \A i, k \in DOMAIN file_mapping :
        i # k /\ jobs[i].status = "completed" /\ jobs[k].status = "completed"
        => file_mapping[i] # file_mapping[k]

====
